---- MODULE Spec2Model ----
(***************************************************************************)
(* Model of src/strategy/market_maker.py: the market_maker strategy class. *)
(*                                                                         *)
(* The class is driven by an asyncio event loop.  Code between two await   *)
(* points runs atomically; a coroutine is suspended only while a call into *)
(* the order ledger (cancel_active_orders, amend_active_orders) or the     *)
(* connectivity layer (reconnect) is outstanding.  Every action below is   *)
(* therefore one maximal run of synchronous code: the start of run() or    *)
(* on_market_update() up to its first outstanding call, or the resumption  *)
(* of a suspended coroutine when its call succeeds or fails, up to the     *)
(* next outstanding call or the end of the invocation.                     *)
(*                                                                         *)
(* Prices are integers counted in units of 10^-price_rounding, so that     *)
(* round(x, price_rounding) of a whole number of units is that number.     *)
(*                                                                         *)
(* The code reads time.time() only to store it and to compare it with a    *)
(* stored timestamp plus 5 or 10 seconds.  The model keeps the present     *)
(* reading fixed (now) and lets time pass by moving the stored timestamps  *)
(* into the past; a timestamp 10 seconds old or older decides both         *)
(* comparisons the same way as any older one and is kept at that age.      *)
(***************************************************************************)
EXTENDS Integers, Sequences, FiniteSets, TLC

\* ---------------------------------------------------------------- bounds
MaxTasks == 2        \* coroutines that may be suspended at the same time
MaxDepth == 2        \* nested handle_exception frames on one coroutine
MaxRecovering == 1   \* coroutines inside handle_exception at the same time
ClockStep == 5       \* seconds that pass in one step of the clock
MaxOrders == 2       \* largest count the ledger reports
MaxTick == 3         \* largest tick_size priced, in price units
LowestPrice == 98    \* lowest price quoted by the book
PriceSpan == 6       \* the book's prices lie in LowestPrice..LowestPrice+PriceSpan

\* ------------------------------------------------------ program constants
TIME_TO_WAIT_SINCE_START_SECS == 10
MAX_NUMBER_OF_ATTEMPTS_SECS == 5
MAX_ATTEMPTS == 5

\* The present reading of time.time(), and the oldest timestamp kept apart.
now == 10 * TIME_TO_WAIT_SINCE_START_SECS
Oldest == now - TIME_TO_WAIT_SINCE_START_SECS

None == -1
NoTob == [best_bid_price |-> 0, best_ask_price |-> 0]
NoUpdate == [type |-> "none", best_bid_price |-> 0, best_ask_price |-> 0,
             bids |-> 0, asks |-> 0]

Tasks == 1..MaxTasks

VARIABLES
    self,            \* the fields of the market_maker object
    cfg,             \* the options read by _load_configuration
    stack,           \* per coroutine: its suspended frames, innermost first
    step,            \* observation: what the last step did
    pending          \* observation: what the ticks have left undone

obs == <<step, pending>>
vars == <<self, cfg, stack, step, pending>>

\* ------------------------------------------------------------ input sets
Configurations ==
    [tick_size : {1},
     mid_price_based_calculation : {TRUE},
     cancel_orders_on_start : BOOLEAN,
     stop_strategy_on_error : BOOLEAN,
     cancel_orders_on_reconnection : BOOLEAN]

user_asks == << [level |-> 0, quantity |-> 1] >>
user_bids == << [level |-> 0, quantity |-> 1] >>

TobUpdates ==
    { [type |-> "tob", best_bid_price |-> 100, best_ask_price |-> 103,
       bids |-> 0, asks |-> 0],
      [type |-> "tob", best_bid_price |-> 100, best_ask_price |-> 102,
       bids |-> 0, asks |-> 0] }

SnapshotUpdates ==
    { [type |-> "exchange_orders", best_bid_price |-> 0, best_ask_price |-> 0,
       bids |-> b, asks |-> a] : b \in 0..1, a \in 0..MaxOrders - 1 }

AckTypes == {"new_order_ack", "amend_ack", "order_fill_ack",
             "order_full_fill_ack"}
NackTypes == {"new_order_nack", "amend_nack"}

LifecycleUpdates ==
    { [type |-> ty, best_bid_price |-> 0, best_ask_price |-> 0,
       bids |-> 0, asks |-> 0] : ty \in AckTypes \cup NackTypes }

Updates == TobUpdates \cup SnapshotUpdates \cup LifecycleUpdates

\* The options and books the quote generator is priced for.
QuoteConfigurations ==
    [tick_size : 1..MaxTick,
     mid_price_based_calculation : BOOLEAN,
     cancel_orders_on_start : {FALSE},
     stop_strategy_on_error : {FALSE},
     cancel_orders_on_reconnection : {FALSE}]

QuotePrices == LowestPrice..(LowestPrice + PriceSpan)

QuoteUpdates ==
    { [type |-> "tob", best_bid_price |-> p[1], best_ask_price |-> p[2],
       bids |-> 0, asks |-> 0] :
          p \in {q \in QuotePrices \X QuotePrices : q[1] < q[2]} }

LedgerStates ==
    [live_orders_ids : {0, MaxOrders}, ready_for_amend : 0..MaxOrders]

\* ------------------------------------------------ frames and configurations
\* count: the local of handle_exception; orders: the local of
\* process_market_move.
Frame(fn, line) == [fn |-> fn, line |-> line, count |-> 0, orders |-> <<>>]

\* c: the object, the running coroutine's frames, the calls made so far in
\* this step, whether an exception left the coroutine.
Conf(s, stk) == [self |-> s, stk |-> stk, calls |-> <<>>, raised |-> FALSE]

\* sig: "susp" the coroutine awaits a call; "ret" the innermost function
\* returned; "exc" it raised.
Out(c, sig) == [c |-> c, sig |-> sig]

Push(c, f) == [c EXCEPT !.stk = <<f>> \o @]
Pop(c) == [c EXCEPT !.stk = Tail(@)]
Issue(c, call) == [c EXCEPT !.calls = Append(@, call)]
SetLine(c, line) == [c EXCEPT !.stk[1].line = line]

Depth(stk) == Cardinality({i \in 1..Len(stk) : stk[i].fn = "handle_exception"})

Has(stk, fn) == \E i \in 1..Len(stk) : stk[i].fn = fn

\* The call a suspended coroutine is waiting for.
Awaiting(stk) ==
    IF stk = <<>> THEN "none"
    ELSE IF Head(stk).fn = "_cancel_orders" /\ Head(stk).line = 135
         THEN "cancel_active_orders"
    ELSE IF Head(stk).fn = "reset" /\ Head(stk).line = 130 THEN "reconnect"
    ELSE IF Head(stk).fn = "process_market_move" /\ Head(stk).line = 279
         THEN "amend_active_orders"
    ELSE "none"

\* Rounding of n/d with ties away from zero.
RoundHalfUp(n, d) ==
    IF 2 * (n % d) < d THEN n \div d ELSE (n \div d) + 1

\* round() of n/d for n >= 0, d > 0: nearest integer, ties to the even one.
RoundHalfEven(n, d) ==
    LET q == n \div d
        r == n % d
    IN  IF 2 * r < d THEN q
        ELSE IF 2 * r > d THEN q + 1
        ELSE IF q % 2 = 0 THEN q ELSE q + 1

\* ------------------------------------------------------------ the methods
_cancel_orders(c) ==
    Out(Issue(Push(c, Frame("_cancel_orders", 135)), "cancel_active_orders"),
        "susp")

stop_strategy(c) == _cancel_orders(Push(c, Frame("stop_strategy", 114)))

reset(c) ==
    LET c1 == [c EXCEPT !.self.cancel_all_request_was_sent = FALSE]
    IN  IF cfg.cancel_orders_on_reconnection
        THEN _cancel_orders(Push(c1, Frame("reset", 126)))
        ELSE Out(Issue(Push(c1, Frame("reset", 130)), "reconnect"), "susp")

_handle_exception(c) ==
    IF cfg.stop_strategy_on_error
    THEN stop_strategy(Push(c, Frame("_handle_exception", 99)))
    ELSE reset(Push([c EXCEPT !.self.reconnecting = TRUE],
                    Frame("_handle_exception", 103)))

handle_exception(c) == _handle_exception(Push(c, Frame("handle_exception", 86)))

\* process_active_orders_on_start without the parity check of line 146.
process_active_orders_on_start_no_parity(c, orders_msg) ==
    IF orders_msg.bids + orders_msg.asks = 0 \/ cfg.cancel_orders_on_start
    THEN Out(c, "ret")
    ELSE Out(Issue(c, "activate_orders"), "ret")

process_active_orders_on_start(c, orders_msg) ==
    IF orders_msg.bids + orders_msg.asks = 0 \/ cfg.cancel_orders_on_start
    THEN Out(c, "ret")
    ELSE IF (orders_msg.bids + orders_msg.asks) % 2 # 0
    THEN _cancel_orders(Push(c, Frame("process_active_orders_on_start", 147)))
    ELSE Out(Issue(c, "activate_orders"), "ret")

\* tob_moved that compares the bid only.
tob_moved_bid_only(s, tob) ==
    s.tob.best_bid_price # tob.best_bid_price

tob_moved(s, tob) ==
    \/ s.tob.best_bid_price # tob.best_bid_price
    \/ s.tob.best_ask_price # tob.best_ask_price

AsTob(update) == [best_bid_price |-> update.best_bid_price,
                  best_ask_price |-> update.best_ask_price]

\* on_market_update that hands a failure of the ledger to handle_exception.
on_market_update_escalating(c, update, ledger_ok) ==
    IF ~c.self.active THEN Out(c, "ret")
    ELSE IF update.type = "tob"
    THEN IF c.self.tob = NoTob \/ tob_moved(c.self, update)
         THEN Out([c EXCEPT !.self.update_orders = TRUE,
                            !.self.tob = AsTob(update)], "ret")
         ELSE Out(c, "ret")
    ELSE IF update.type = "exchange_orders"
    THEN process_active_orders_on_start(
             Push(c, Frame("on_market_update", 165)), update)
    ELSE IF ledger_ok THEN Out(Issue(c, "update_order_state"), "ret")
    ELSE handle_exception(Push(Issue(c, "update_order_state"),
                               Frame("on_market_update", 173)))

\* ledger_ok: whether the ledger's update_order_state returns or raises.
on_market_update(c, update, ledger_ok) ==
    IF ~c.self.active THEN Out(c, "ret")
    ELSE IF update.type = "tob"
    THEN IF c.self.tob = NoTob \/ tob_moved(c.self, update)
         THEN Out([c EXCEPT !.self.update_orders = TRUE,
                            !.self.tob = AsTob(update)], "ret")
         ELSE Out(c, "ret")
    ELSE IF update.type = "exchange_orders"
    THEN process_active_orders_on_start(
             Push(c, Frame("on_market_update", 165)), update)
    ELSE Out(Issue(c, "update_order_state"),
             IF ledger_ok THEN "ret" ELSE "exc")

\* _orders_are_ready_for_amend whose count of 1 is taken for True.
_orders_are_ready_for_amend_truthy(s, orders_manager) ==
    LET known_statuses == orders_manager.ready_for_amend
    IN  IF /\ s.last_amend_time # None /\ s.last_amend_time # 0
           /\ orders_manager.live_orders_ids > 0
           /\ known_statuses # s.num_of_sent_orders
           /\ known_statuses # 1
        THEN [type |-> "int", value |-> known_statuses]
        ELSE [type |-> "bool", value |-> 1]

\* The result is tagged with its Python type: True, or the int known_statuses
\* (an int is never the object True, whatever its value).
\* orders_manager: what the ledger reports when asked.
_orders_are_ready_for_amend(s, orders_manager) ==
    LET known_statuses == orders_manager.ready_for_amend
    IN  IF /\ s.last_amend_time # None /\ s.last_amend_time # 0
           /\ orders_manager.live_orders_ids > 0
           /\ known_statuses # s.num_of_sent_orders
        THEN [type |-> "int", value |-> known_statuses]
        ELSE [type |-> "bool", value |-> 1]

Anchors(s) ==
    LET ask == s.tob.best_ask_price
        bid == s.tob.best_bid_price
        tick == cfg.tick_size
        rounded_mid == RoundHalfEven(ask + bid, 2 * tick) * tick
    IN  IF ~cfg.mid_price_based_calculation
        THEN [best_ask |-> ask, best_bid |-> bid]
        ELSE IF ask - bid = 2 * tick
        THEN [best_ask |-> rounded_mid + tick, best_bid |-> rounded_mid - tick]
        ELSE IF 2 * rounded_mid >= ask + bid
        THEN [best_ask |-> rounded_mid, best_bid |-> rounded_mid - tick]
        ELSE [best_ask |-> rounded_mid + tick, best_bid |-> rounded_mid]

generate_orders(s) ==
    LET a == Anchors(s)
    IN  [i \in 1..Len(user_asks) |->
            [side |-> "sell",
             price |-> a.best_ask + cfg.tick_size * user_asks[i].level,
             quantity |-> user_asks[i].quantity]]
        \o
        [i \in 1..Len(user_bids) |->
            [side |-> "buy",
             price |-> a.best_bid - cfg.tick_size * user_bids[i].level,
             quantity |-> user_bids[i].quantity]]

\* process_market_move that escalates as soon as the 5 seconds are reached.
process_market_move_eager(c, orders_manager) ==
    IF ~c.self.active THEN Out(c, "ret")
    ELSE IF c.self.reconnecting THEN Out(c, "ret")
    ELSE LET res == _orders_are_ready_for_amend(c.self, orders_manager)
         IN  IF res.type # "bool"
             THEN IF c.self.last_amend_time + MAX_NUMBER_OF_ATTEMPTS_SECS <= now
                  THEN handle_exception(
                           Push(c, Frame("process_market_move", 269)))
                  ELSE Out(c, "ret")
             ELSE Out(Issue(Push(c, [Frame("process_market_move", 279)
                                       EXCEPT !.orders = generate_orders(c.self)]),
                            "amend_active_orders"),
                      "susp")

\* process_market_move without the check of line 248.
process_market_move_unguarded(c, orders_manager) ==
    IF ~c.self.active THEN Out(c, "ret")
    ELSE LET res == _orders_are_ready_for_amend(c.self, orders_manager)
         IN  IF res.type # "bool"
             THEN IF c.self.last_amend_time + MAX_NUMBER_OF_ATTEMPTS_SECS < now
                  THEN handle_exception(
                           Push(c, Frame("process_market_move", 269)))
                  ELSE Out(c, "ret")
             ELSE Out(Issue(Push(c, [Frame("process_market_move", 279)
                                       EXCEPT !.orders = generate_orders(c.self)]),
                            "amend_active_orders"),
                      "susp")

process_market_move(c, orders_manager) ==
    IF ~c.self.active THEN Out(c, "ret")
    ELSE IF c.self.reconnecting THEN Out(c, "ret")
    ELSE LET res == _orders_are_ready_for_amend(c.self, orders_manager)
         IN  IF res.type # "bool"
             THEN IF c.self.last_amend_time + MAX_NUMBER_OF_ATTEMPTS_SECS < now
                  THEN handle_exception(
                           Push(c, Frame("process_market_move", 269)))
                  ELSE Out(c, "ret")
             ELSE Out(Issue(Push(c, [Frame("process_market_move", 279)
                                       EXCEPT !.orders = generate_orders(c.self)]),
                            "amend_active_orders"),
                      "susp")

\* run without the check of line 185.
run_without_warm_up(c, orders_manager) ==
    IF ~c.self.active THEN Out(c, "ret")
    ELSE IF c.self.tob = NoTob THEN Out(c, "ret")
    ELSE IF ~c.self.update_orders THEN Out(c, "ret")
    ELSE process_market_move(
             Push([c EXCEPT !.self.update_orders = FALSE], Frame("run", 189)),
             orders_manager)

\* run without the check of line 178.
run_ignoring_active(c, orders_manager) ==
    IF c.self.tob = NoTob THEN Out(c, "ret")
    ELSE IF ~c.self.update_orders THEN Out(c, "ret")
    ELSE IF c.self.started_time + TIME_TO_WAIT_SINCE_START_SECS > now
    THEN Out(c, "ret")
    ELSE process_market_move(
             Push([c EXCEPT !.self.update_orders = FALSE], Frame("run", 189)),
             orders_manager)

run(c, orders_manager) ==
    IF ~c.self.active THEN Out(c, "ret")
    ELSE IF c.self.tob = NoTob THEN Out(c, "ret")
    ELSE IF ~c.self.update_orders THEN Out(c, "ret")
    ELSE IF c.self.started_time + TIME_TO_WAIT_SINCE_START_SECS > now
    THEN Out(c, "ret")
    ELSE process_market_move(
             Push([c EXCEPT !.self.update_orders = FALSE], Frame("run", 189)),
             orders_manager)

\* --------------------------------------- resumption after an awaited call
\* Each operator continues the innermost frame after what it awaited has
\* returned (sig = "ret") or raised (sig = "exc").
_cancel_orders_resume(c, sig) ==
    IF Head(c.stk).line = 135
    THEN IF sig = "ret" THEN Out(Pop(c), "ret")
         ELSE handle_exception(SetLine(c, 137))
    ELSE Out(Pop(c), sig)

handle_exception_resume(c, sig) ==
    IF sig = "ret" THEN Out(Pop(c), "ret")
    ELSE LET count == Head(c.stk).count + 1
         IN  IF count < MAX_ATTEMPTS
             THEN _handle_exception([c EXCEPT !.stk[1].count = count])
             ELSE Out(Pop(c), "exc")

\* _handle_exception that switches the strategy back on once reconnected.
_handle_exception_resume_reactivating(c, sig) ==
    IF sig = "exc" THEN Out(Pop(c), "exc")
    ELSE IF Head(c.stk).line = 99
    THEN reset(SetLine([c EXCEPT !.self.reconnecting = TRUE], 103))
    ELSE Out(Pop([c EXCEPT !.self.started_time = now,
                           !.self.reconnecting = FALSE,
                           !.self.active = TRUE]), "ret")

_handle_exception_resume(c, sig) ==
    IF sig = "exc" THEN Out(Pop(c), "exc")
    ELSE IF Head(c.stk).line = 99
    THEN reset(SetLine([c EXCEPT !.self.reconnecting = TRUE], 103))
    ELSE Out(Pop([c EXCEPT !.self.started_time = now,
                           !.self.reconnecting = FALSE]), "ret")

stop_strategy_resume(c, sig) ==
    IF sig = "exc" THEN Out(Pop(c), "exc")
    ELSE Out(Pop([c EXCEPT !.self.active = FALSE]), "ret")

\* reset that keeps the stamps of the last batch after its cancel.
reset_resume_keeping_stamps(c, sig) ==
    IF sig = "exc" THEN Out(Pop(c), "exc")
    ELSE IF Head(c.stk).line = 126
    THEN Out(Issue(SetLine([c EXCEPT !.self.cancel_all_request_was_sent = TRUE],
                           130),
                   "reconnect"), "susp")
    ELSE Out(Pop(c), "ret")

reset_resume(c, sig) ==
    IF sig = "exc" THEN Out(Pop(c), "exc")
    ELSE IF Head(c.stk).line = 126
    THEN Out(Issue(SetLine([c EXCEPT !.self.cancel_all_request_was_sent = TRUE,
                                     !.self.last_amend_time = None,
                                     !.self.num_of_sent_orders = 0], 130),
                   "reconnect"), "susp")
    ELSE Out(Pop(c), "ret")

process_active_orders_on_start_resume(c, sig) == Out(Pop(c), sig)

on_market_update_resume(c, sig) == Out(Pop(c), sig)

\* process_market_move that stamps the batch whether or not it was accepted.
process_market_move_resume_stamping(c, sig) ==
    IF Head(c.stk).line = 279
    THEN LET c1 == [c EXCEPT !.self.last_amend_time = now,
                             !.self.num_of_sent_orders =
                                 Len(Head(c.stk).orders)]
         IN  IF sig = "ret" THEN Out(Pop(c1), "ret")
             ELSE handle_exception(
                      SetLine([c1 EXCEPT !.stk[1].orders = <<>>], 281))
    ELSE Out(Pop(c), sig)

process_market_move_resume(c, sig) ==
    IF Head(c.stk).line = 279
    THEN IF sig = "ret"
         THEN Out(Pop([c EXCEPT !.self.last_amend_time = now,
                                !.self.num_of_sent_orders =
                                    Len(Head(c.stk).orders)]), "ret")
         ELSE \* orders is not read again once the call has raised
              handle_exception(
                  SetLine([c EXCEPT !.stk[1].orders = <<>>], 281))
    ELSE Out(Pop(c), sig)

run_resume(c, sig) == Out(Pop(c), sig)

Continue(c, sig) ==
    LET fn == Head(c.stk).fn
    IN  CASE fn = "_cancel_orders" -> _cancel_orders_resume(c, sig)
          [] fn = "handle_exception" -> handle_exception_resume(c, sig)
          [] fn = "_handle_exception" -> _handle_exception_resume(c, sig)
          [] fn = "stop_strategy" -> stop_strategy_resume(c, sig)
          [] fn = "reset" -> reset_resume(c, sig)
          [] fn = "process_active_orders_on_start" ->
                 process_active_orders_on_start_resume(c, sig)
          [] fn = "on_market_update" -> on_market_update_resume(c, sig)
          [] fn = "process_market_move" -> process_market_move_resume(c, sig)
          [] fn = "run" -> run_resume(c, sig)

\* Runs the coroutine until it awaits an external call or ends.
RECURSIVE Resume(_, _)
Resume(c, sig) ==
    IF sig = "susp" THEN c
    ELSE IF c.stk = <<>> THEN [c EXCEPT !.raised = (sig = "exc")]
    ELSE LET r == Continue(c, sig) IN Resume(r.c, r.sig)

\* ------------------------------------------------------------------ state
Init ==
    /\ cfg \in Configurations
    /\ self = [update_orders |-> FALSE,
               started_time |-> now,
               last_amend_time |-> None,
               reconnecting |-> FALSE,
               active |-> TRUE,
               tob |-> NoTob,
               num_of_sent_orders |-> 0,
               cancel_all_request_was_sent |-> FALSE]
    /\ stack = [t \in Tasks |-> <<>>]
    /\ pending = "none"
    /\ step = [op |-> "init", calls |-> <<>>, raised |-> FALSE]

\* A new invocation takes the first coroutine slot that is free.
FreeTask(t) == stack[t] = <<>> /\ \A u \in Tasks : u < t => stack[u] # <<>>

Called(c, call) == \E i \in 1..Len(c.calls) : c.calls[i] = call

\* The step leaves coroutine t as c says.
Finish(t, c) ==
    /\ self' = c.self
    /\ stack' = [stack EXCEPT ![t] = c.stk]
    /\ UNCHANGED cfg

\* One call of run() up to its first outstanding call or its end.
\* orders_manager is what the ledger reports during the call.
RunTo(orders_manager) ==
    LET r == run(Conf(self, <<>>), orders_manager) IN Resume(r.c, r.sig)

\* One call of on_market_update(update), likewise.
UpdateTo(update, ledger_ok) ==
    LET r == on_market_update(Conf(self, <<>>), update, ledger_ok)
    IN  Resume(r.c, r.sig)

\* Coroutine t runs on after its outstanding call returned or raised.
CompleteTo(t, ok) == Resume(Conf(self, stack[t]), IF ok THEN "ret" ELSE "exc")

\* ---------------------------------------------------------------- actions
\* The periodic tick.
Run(t, orders_manager) ==
    /\ FreeTask(t)
    /\ Finish(t, RunTo(orders_manager))

\* The connectivity layer's callback.
OnMarketUpdate(t, update, ledger_ok) ==
    /\ FreeTask(t)
    /\ ledger_ok \/ update \in LifecycleUpdates
    /\ Finish(t, UpdateTo(update, ledger_ok))

\* The call a coroutine awaits returns (ok) or raises (~ok).
Complete(t, ok) ==
    /\ stack[t] # <<>>
    /\ Finish(t, CompleteTo(t, ok))

\* A timestamp after ClockStep more seconds have passed.
Aged(ts) ==
    IF ts = None THEN None
    ELSE IF ts - ClockStep < Oldest THEN Oldest ELSE ts - ClockStep

\* Time passes.
Clock ==
    /\ self' = [self EXCEPT !.started_time = Aged(@),
                            !.last_amend_time = Aged(@)]
    /\ UNCHANGED <<cfg, stack>>

\* ------------------------------------------------------------ exploration
\* An escalation is explored while the bounds have room for it, and a
\* nested one while no other coroutine is suspended.
Bounded(stks) ==
    /\ \A t \in Tasks : Depth(stks[t]) <= MaxDepth
    /\ Cardinality({t \in Tasks : Depth(stks[t]) > 0}) <= MaxRecovering
    /\ \A t \in Tasks : Depth(stks[t]) > 1 =>
           \A u \in Tasks \ {t} : stks[u] = <<>>

Next ==
    \/ \E t \in Tasks, orders_manager \in LedgerStates :
           Run(t, orders_manager) /\ Bounded(stack') /\ UNCHANGED obs
    \/ \E t \in Tasks, update \in Updates, ledger_ok \in BOOLEAN :
           OnMarketUpdate(t, update, ledger_ok) /\ Bounded(stack')
           /\ UNCHANGED obs
    \/ \E t \in Tasks, ok \in BOOLEAN :
           Complete(t, ok) /\ Bounded(stack') /\ UNCHANGED obs
    \/ Clock /\ UNCHANGED obs

Spec == Init /\ [][Next]_vars

\* ------------------------------------------------------------ observation
\* The same steps, with a record of what each step did and of what the
\* ticks have left undone; no recovery is nested here.
Flat(stks) == \A t \in Tasks : Depth(stks[t]) <= 1

Observe(op, c) == step' = [op |-> op, calls |-> c.calls, raised |-> c.raised]

\* A tick that clears update_orders and then returns from line 274 has
\* deferred; the next batch submitted, or the next change of the book,
\* ends what was pending.
ObsRun(c) ==
    /\ Observe("run", c)
    /\ pending' = IF Called(c, "amend_active_orders") THEN "none"
                  ELSE IF /\ self.update_orders /\ ~c.self.update_orders
                          /\ ~self.reconnecting /\ c.calls = <<>>
                  THEN "deferred"
                  ELSE pending

ObsUpdate(c) ==
    /\ Observe("on_market_update", c)
    /\ pending' = IF c.self.tob # self.tob THEN "none" ELSE pending

\* An amend that failed and whose recovery has now returned to
\* process_market_move, the strategy still active, is due for a retry.
ObsComplete(t, ok, c) ==
    /\ Observe(IF ok THEN "returned" ELSE "raised", c)
    /\ pending' = IF /\ \E i \in 1..Len(stack[t]) :
                           /\ stack[t][i].fn = "process_market_move"
                           /\ stack[t][i].line = 281
                     /\ c.stk = <<>> /\ ~c.raised /\ c.self.active
                  THEN "retry" ELSE pending

ObsClock ==
    /\ step' = [op |-> "clock", calls |-> <<>>, raised |-> FALSE]
    /\ UNCHANGED pending

NextObs ==
    \/ \E t \in Tasks, orders_manager \in LedgerStates :
           /\ Run(t, orders_manager) /\ Bounded(stack') /\ Flat(stack')
           /\ ObsRun(RunTo(orders_manager))
    \/ \E t \in Tasks, update \in Updates, ledger_ok \in BOOLEAN :
           /\ OnMarketUpdate(t, update, ledger_ok)
           /\ Bounded(stack') /\ Flat(stack')
           /\ ObsUpdate(UpdateTo(update, ledger_ok))
    \/ \E t \in Tasks, ok \in BOOLEAN :
           /\ Complete(t, ok) /\ Bounded(stack') /\ Flat(stack')
           /\ ObsComplete(t, ok, CompleteTo(t, ok))
    \/ Clock /\ ObsClock

SpecObs == Init /\ [][NextObs]_vars

\* ---------------------------------------------------------------- quoting
\* The strategy fed with books of every spread and configured with every
\* tick size and both pricing modes, one coroutine at a time.
InitQuote ==
    /\ cfg \in QuoteConfigurations
    /\ self = [update_orders |-> FALSE,
               started_time |-> now,
               last_amend_time |-> None,
               reconnecting |-> FALSE,
               active |-> TRUE,
               tob |-> NoTob,
               num_of_sent_orders |-> 0,
               cancel_all_request_was_sent |-> FALSE]
    /\ stack = [t \in Tasks |-> <<>>]
    /\ pending = "none"
    /\ step = [op |-> "init", calls |-> <<>>, raised |-> FALSE]

Idle == \A t \in Tasks : stack[t] = <<>>

NextQuote ==
    \/ \E t \in Tasks, orders_manager \in LedgerStates :
           Idle /\ Run(t, orders_manager) /\ Bounded(stack') /\ Flat(stack')
           /\ UNCHANGED obs
    \/ \E t \in Tasks, update \in QuoteUpdates :
           Idle /\ OnMarketUpdate(t, update, TRUE) /\ UNCHANGED obs
    \/ \E t \in Tasks, ok \in BOOLEAN :
           Complete(t, ok) /\ Bounded(stack') /\ Flat(stack')
           /\ UNCHANGED obs
    \/ Clock /\ UNCHANGED obs

SpecQuote == InitQuote /\ [][NextQuote]_vars

\* ----------------------------------------------------------------- claims
NoTickExecuting == \A t \in Tasks : ~Has(stack[t], "run")

WarmedUp == ~(self.started_time + TIME_TO_WAIT_SINCE_START_SECS > now)

Ready(orders_manager) ==
    _orders_are_ready_for_amend(self, orders_manager).type = "bool"

\* The attempts of one escalation that have failed or are in progress: every
\* live handle_exception frame has made count failed attempts and one more
\* that has not returned.
RECURSIVE AttemptsMade(_)
AttemptsMade(stk) ==
    IF stk = <<>> THEN 0
    ELSE (IF Head(stk).fn = "handle_exception" THEN Head(stk).count + 1 ELSE 0)
         + AttemptsMade(Tail(stk))

\* C1: an escalation whose attempts all fail makes exactly 5 attempts and
\* then raises: no coroutine ever has a sixth recovery attempt of one
\* escalation under way.
C1_AtMostFiveAttempts ==
    \A t \in Tasks : AttemptsMade(stack[t]) <= MAX_ATTEMPTS

\* C2: once active is false it is never true again.
C2_ActiveMonotonic == [][~self.active => ~self'.active]_vars

\* The strategy was stopped and the recovery that stopped it has run to its
\* end: reset, reconnect and the restart of the warm-up all came after.
C2_StoppedAndRecovered ==
    /\ ~self.active
    /\ ~self.reconnecting
    /\ \A t \in Tasks : stack[t] = <<>>

\* C3: with active false, a call of on_market_update or of run changes no
\* field of the object, suspends nowhere, raises nothing and makes no call
\* to the ledger or the connectivity layer.
C3_StoppedIsNoOp ==
    [][(~self.active /\ step'.op \in {"run", "on_market_update"})
       => /\ self' = self
          /\ stack' = stack
          /\ step'.calls = <<>>
          /\ ~step'.raised]_vars

\* A tick arrived after the stop with a changed book stored and the warm-up
\* over: only the check of active kept it from amending.
C3_TickAfterStop ==
    /\ ~self.active
    /\ step.op = "run"
    /\ self.update_orders
    /\ self.tob # NoTob
    /\ WarmedUp
    /\ ~self.reconnecting

\* C4: with the strategy active and no tick executing, a stored top of book
\* for which no batch has been submitted has update_orders set.  Where
\* reset never clears last_amend_time (cancel_orders_on_reconnection off),
\* last_amend_time is None exactly when no batch was ever submitted.
C4_DirtyUntilActedOn ==
    (/\ ~cfg.cancel_orders_on_reconnection
     /\ self.active
     /\ NoTickExecuting
     /\ self.tob # NoTob
     /\ self.last_amend_time = None)
    => self.update_orders

\* C5: after a tick has deferred (orders not ready, not stale), the first
\* tick that finds the strategy active, not reconnecting, warmed up and
\* the orders ready submits a batch, with no new TopOfBook in between.
C5_DeferredUpdateHonoured ==
    [][\A t \in Tasks, orders_manager \in LedgerStates :
          (/\ pending = "deferred"
           /\ Run(t, orders_manager)
           /\ step'.op = "run"
           /\ self.active /\ ~self.reconnecting /\ WarmedUp
           /\ Ready(orders_manager))
          => step'.calls = <<"amend_active_orders">>]_vars

\* C6: after an amend failed and recovery succeeded with the strategy still
\* active, the first tick after the restarted warm-up (the ledger ready)
\* submits a batch, with no new TopOfBook in between.
C6_RetryAfterRecovery ==
    [][\A t \in Tasks, orders_manager \in LedgerStates :
          (/\ pending = "retry"
           /\ Run(t, orders_manager)
           /\ step'.op = "run"
           /\ self.active /\ ~self.reconnecting /\ WarmedUp
           /\ Ready(orders_manager))
          => step'.calls = <<"amend_active_orders">>]_vars

\* C7: whenever amend_active_orders is called, active was true and
\* reconnecting false when process_market_move checked them, which is the
\* state the calling step started in.
C7_NoAmendWhileReconnecting ==
    [][\A t \in Tasks :
          (stack[t] = <<>> /\ Awaiting(stack'[t]) = "amend_active_orders")
          => (self.active /\ ~self.reconnecting)]_vars

\* A batch is outstanding while another coroutine is inside the recovery
\* controller.
C7_AmendBesideRecovery ==
    \E t, u \in Tasks :
        /\ Awaiting(stack[t]) = "amend_active_orders"
        /\ Depth(stack[u]) > 0

InAmendCycle(stk) ==
    \E i \in 1..Len(stk) :
        stk[i].fn = "process_market_move" /\ stk[i].line \in {279, 281}

\* C8: at most one coroutine is between the guards of process_market_move
\* and the end of its submission or of the recovery the submission
\* escalated to.
C8_OneAmendCycle ==
    Cardinality({t \in Tasks : InAmendCycle(stack[t])}) <= 1

\* C9: while a cancel or reconnect issued inside the recovery controller is
\* outstanding, reconnecting is true.
C9_RecoveryCallsUnderReconnecting ==
    \A t \in Tasks :
        (/\ Depth(stack[t]) > 0
         /\ Awaiting(stack[t]) \in {"cancel_active_orders", "reconnect"})
        => self.reconnecting

InReset126(stk) ==
    \E i \in 1..Len(stk) : stk[i].fn = "reset" /\ stk[i].line = 126

\* C10: last_amend_time and num_of_sent_orders change only in the step in
\* which amend_active_orders returns, to now and to the size of that batch,
\* or in a step that resumes reset after its cancel, to None and 0; a failed
\* submission, a tick and an update of any kind leave them as they are.
\* (Clock only moves the stored timestamps into the past.)
C10_StampOnlyAfterSubmission ==
    [][\/ Clock
       \/ (\/ self'.last_amend_time # self.last_amend_time
           \/ self'.num_of_sent_orders # self.num_of_sent_orders)
          => \E t \in Tasks :
                /\ stack'[t] # stack[t]
                /\ \/ /\ Awaiting(stack[t]) = "amend_active_orders"
                      /\ stack'[t] = <<>>
                      /\ self'.last_amend_time = now
                      /\ self'.num_of_sent_orders = Len(Head(stack[t]).orders)
                   \/ /\ InReset126(stack[t])
                      /\ self'.last_amend_time = None
                      /\ self'.num_of_sent_orders = 0]_vars

\* A batch has just been accepted and stamped.
C10_JustStamped ==
    /\ self.last_amend_time = now
    /\ self.num_of_sent_orders = Len(user_asks) + Len(user_bids)
    /\ \A t \in Tasks : stack[t] = <<>>

\* The outstanding call is the cancel made by stop_strategy for
\* _handle_exception (lines 99, 114, 135).
InStopCancel(stk) ==
    /\ Len(stk) >= 3
    /\ stk[1].fn = "_cancel_orders" /\ stk[1].line = 135
    /\ stk[2].fn = "stop_strategy"
    /\ stk[3].fn = "_handle_exception"

\* C11: with stop_strategy_on_error set, when the cancel of the Stopped
\* transition fails, the failure leaves the recovery controller at once: the
\* coroutine ends in that step, with no further attempt, cancel or reconnect.
C11_StopCancelFailurePropagates ==
    [][\A t \in Tasks :
          (/\ cfg.stop_strategy_on_error
           /\ InStopCancel(stack[t])
           /\ Depth(stack[t]) = 1
           /\ Complete(t, FALSE))
          => stack'[t] = <<>>]_vars

\* C12: inside the warm-up window run changes nothing and calls nothing,
\* even with update_orders set and a top of book stored; no coroutine starts
\* to await amend_active_orders inside the window; and the step in which an
\* escalation ends successfully leaves started_time at the present time.
C12_WarmUpGate ==
    [][/\ ~WarmedUp =>
              \A orders_manager \in LedgerStates :
                  RunTo(orders_manager) = Conf(self, <<>>)
       /\ \A t \in Tasks :
              (stack[t] = <<>> /\ Awaiting(stack'[t]) = "amend_active_orders")
              => WarmedUp
       /\ \A t \in Tasks, ok \in BOOLEAN :
              (/\ Depth(stack[t]) > 0
               /\ Complete(t, ok)
               /\ Depth(CompleteTo(t, ok).stk) = 0
               /\ ~CompleteTo(t, ok).raised)
              => self'.started_time = now]_vars

\* A changed book is waiting inside the warm-up window that a successful
\* recovery restarted after a batch had been submitted.
C12_DirtyInsideWarmUp ==
    /\ self.active /\ ~self.reconnecting
    /\ self.update_orders /\ self.tob # NoTob
    /\ self.last_amend_time # None
    /\ ~WarmedUp

\* C13: while active, a TopOfBook update with both prices equal to the stored
\* ones changes nothing; the first one, or one with a different price,
\* replaces tob and sets update_orders and changes nothing else; no TopOfBook
\* update makes a call, suspends or raises.
C13_IdempotentBookUpdate ==
    self.active =>
        \A update \in TobUpdates :
            LET c == UpdateTo(update, TRUE)
                same == /\ self.tob # NoTob
                        /\ self.tob.best_bid_price = update.best_bid_price
                        /\ self.tob.best_ask_price = update.best_ask_price
            IN  /\ c.calls = <<>> /\ c.stk = <<>> /\ ~c.raised
                /\ c.self = IF same THEN self
                            ELSE [self EXCEPT !.tob = AsTob(update),
                                              !.update_orders = TRUE]

\* A book is stored and a tick has cleared update_orders for a batch that
\* was submitted: the same book again must leave the flag clear.
C13_BookStoredAndActedOn ==
    /\ self.active
    /\ self.tob # NoTob
    /\ ~self.update_orders
    /\ self.last_amend_time # None

\* C14: a snapshot received while active makes one of three choices: empty
\* or cancel_orders_on_start, no call at all; otherwise an odd number of
\* orders, cancel_active_orders and never activate_orders, also not once the
\* cancel has returned or failed; otherwise activate_orders and no cancel.
C14_SnapshotReconciliation ==
    /\ self.active =>
           \A update \in SnapshotUpdates :
               LET c == UpdateTo(update, TRUE)
                   n == update.bids + update.asks
               IN  IF n = 0 \/ cfg.cancel_orders_on_start
                   THEN c.calls = <<>> /\ c.stk = <<>> /\ c.self = self
                   ELSE IF n % 2 = 1
                   THEN /\ c.calls = <<"cancel_active_orders">>
                        /\ Awaiting(c.stk) = "cancel_active_orders"
                   ELSE /\ c.calls = <<"activate_orders">>
                        /\ c.stk = <<>> /\ c.self = self
    /\ \A t \in Tasks, ok \in BOOLEAN :
           Has(stack[t], "process_active_orders_on_start")
           => ~Called(CompleteTo(t, ok), "activate_orders")

\* The cancel that an odd snapshot asked for has failed and its recovery is
\* under way in the coroutine of that snapshot.
C14_OddSnapshotRecovering ==
    \E t \in Tasks :
        /\ Has(stack[t], "process_active_orders_on_start")
        /\ Depth(stack[t]) > 0

InStaleEscalation(stk) ==
    \E i \in 1..Len(stk) :
        stk[i].fn = "process_market_move" /\ stk[i].line = 269

\* C15: the orders are ready when no batch was ever sent or the ledger has
\* no live order, and otherwise exactly when the ledger's count of ready
\* orders equals num_of_sent_orders; when not ready the check returns that
\* count, 0 and 1 included, and the tick submits no batch, neither at once
\* nor after the recovery it may escalate to.
C15_ReadinessCheck ==
    /\ \A orders_manager \in LedgerStates :
           LET res == _orders_are_ready_for_amend(self, orders_manager)
               ready == \/ self.last_amend_time = None
                        \/ orders_manager.live_orders_ids = 0
                        \/ orders_manager.ready_for_amend =
                               self.num_of_sent_orders
           IN  /\ ready => res = [type |-> "bool", value |-> 1]
               /\ ~ready =>
                      /\ res = [type |-> "int",
                                value |-> orders_manager.ready_for_amend]
                      /\ ~Called(RunTo(orders_manager), "amend_active_orders")
    /\ \A t \in Tasks, ok \in BOOLEAN :
           InStaleEscalation(stack[t])
           => ~Called(CompleteTo(t, ok), "amend_active_orders")

\* A tick would pass every gate before the readiness check, and a batch of
\* two orders has been sent: a ledger count of 0 or 1 is not ready.
C15_BatchAwaitingConfirmation ==
    /\ self.active /\ ~self.reconnecting
    /\ self.tob # NoTob /\ self.update_orders /\ WarmedUp
    /\ self.last_amend_time # None
    /\ self.num_of_sent_orders = Len(user_asks) + Len(user_bids)

\* C16: an ack, fill or nack received while active is handed once to the
\* ledger's update_order_state and to nothing else; the call of
\* on_market_update ends in the same step, with no field changed and no
\* recovery started, and raises exactly when the ledger raised.
C16_LifecycleForwardedOnce ==
    self.active =>
        \A update \in LifecycleUpdates, ledger_ok \in BOOLEAN :
            LET c == UpdateTo(update, ledger_ok)
            IN  /\ c.calls = <<"update_order_state">>
                /\ c.self = self
                /\ c.stk = <<>>
                /\ c.raised = ~ledger_ok

\* The ledger has just refused a lifecycle update and on_market_update has
\* raised to its caller.
C16_LedgerFailureRaised ==
    /\ self.active
    /\ step.op = "on_market_update"
    /\ step.calls = <<"update_order_state">>
    /\ step.raised

\* rm is the multiple of tick nearest to (ask + bid) / 2, the even multiple
\* when two are equally near.
IsRoundedMid(rm, ask, bid, tick) ==
    LET twice == IF 2 * rm >= ask + bid THEN 2 * rm - (ask + bid)
                 ELSE (ask + bid) - 2 * rm
    IN  /\ rm % tick = 0
        /\ \/ twice < tick
           \/ twice = tick /\ (rm \div tick) % 2 = 0

\* C17: in mid-price mode the anchors are roundedMid + tick and
\* roundedMid - tick when the spread is two ticks, else roundedMid and
\* roundedMid - tick when roundedMid >= mid, else roundedMid + tick and
\* roundedMid; so bid' < ask' and bid' <= mid <= ask'; tick 1, bid 100,
\* ask 103 gives 102 and 101; in raw mode the anchors are the book's prices.
C17_MidPriceAnchoring ==
    self.tob # NoTob =>
        LET ask == self.tob.best_ask_price
            bid == self.tob.best_bid_price
            tick == cfg.tick_size
            a == Anchors(self)
        IN  IF ~cfg.mid_price_based_calculation
            THEN a = [best_ask |-> ask, best_bid |-> bid]
            ELSE /\ \E rm \in 0..(ask + tick) : IsRoundedMid(rm, ask, bid, tick)
                 /\ \A rm \in 0..(ask + tick) :
                        IsRoundedMid(rm, ask, bid, tick) =>
                            a = IF ask - bid = 2 * tick
                                THEN [best_ask |-> rm + tick,
                                      best_bid |-> rm - tick]
                                ELSE IF 2 * rm >= ask + bid
                                THEN [best_ask |-> rm, best_bid |-> rm - tick]
                                ELSE [best_ask |-> rm + tick, best_bid |-> rm]
                 /\ a.best_bid < a.best_ask
                 /\ 2 * a.best_bid <= ask + bid
                 /\ ask + bid <= 2 * a.best_ask
                 /\ (tick = 1 /\ bid = 100 /\ ask = 103) =>
                        a = [best_ask |-> 102, best_bid |-> 101]

\* A batch priced from the book 100 / 103 with tick 1 in mid-price mode is
\* on its way to the ledger: sell at 102, buy at 101.
C17_QuotedExample ==
    \E t \in Tasks :
        /\ Awaiting(stack[t]) = "amend_active_orders"
        /\ cfg.tick_size = 1 /\ cfg.mid_price_based_calculation
        /\ self.tob = [best_bid_price |-> 100, best_ask_price |-> 103]
        /\ Head(stack[t]).orders =
               << [side |-> "sell", price |-> 102, quantity |-> 1],
                  [side |-> "buy", price |-> 101, quantity |-> 1] >>

\* C18: the steps of one recovery attempt, stop_strategy_on_error off and no
\* recovery nested in it.  It begins by setting reconnecting and clearing
\* cancel_all_request_was_sent, and awaits the cancel when
\* cancel_orders_on_reconnection is set and reconnect otherwise; when the
\* cancel returns it sets cancel_all_request_was_sent, clears last_amend_time
\* and num_of_sent_orders and awaits reconnect; when reconnect returns it
\* sets started_time to the present, clears reconnecting and the coroutine
\* ends.  No step changes anything else (update_orders is cleared only by
\* the tick that escalates, before the attempt).
C18_RecoveryAttemptEffect ==
    [][\A t \in Tasks :
          ~cfg.stop_strategy_on_error =>
              /\ (Depth(stack[t]) = 0 /\ Depth(stack'[t]) = 1) =>
                     /\ Awaiting(stack'[t]) =
                            IF cfg.cancel_orders_on_reconnection
                            THEN "cancel_active_orders" ELSE "reconnect"
                     /\ self' = [self EXCEPT
                                    !.reconnecting = TRUE,
                                    !.cancel_all_request_was_sent = FALSE,
                                    !.update_orders =
                                        IF stack[t] = <<>> THEN FALSE ELSE @]
              /\ (/\ Depth(stack[t]) = 1
                  /\ Awaiting(stack[t]) = "cancel_active_orders"
                  /\ Complete(t, TRUE)) =>
                     /\ Awaiting(stack'[t]) = "reconnect"
                     /\ Depth(stack'[t]) = 1
                     /\ self' = [self EXCEPT
                                    !.cancel_all_request_was_sent = TRUE,
                                    !.last_amend_time = None,
                                    !.num_of_sent_orders = 0]
              /\ (/\ Depth(stack[t]) = 1
                  /\ Awaiting(stack[t]) = "reconnect"
                  /\ Complete(t, TRUE)) =>
                     /\ stack'[t] = <<>>
                     /\ self' = [self EXCEPT !.started_time = now,
                                             !.reconnecting = FALSE]]_vars

\* An attempt that cancelled and reconnected has just ended: the stamps are
\* cleared, the warm-up has restarted and the stored book is still there.
C18_RecoveredWithCancel ==
    /\ ~cfg.stop_strategy_on_error /\ cfg.cancel_orders_on_reconnection
    /\ self.active /\ ~self.reconnecting
    /\ self.cancel_all_request_was_sent
    /\ self.last_amend_time = None /\ self.num_of_sent_orders = 0
    /\ self.started_time = now
    /\ self.tob # NoTob
    /\ Idle

\* C19: a tick that passes the gates of run and finds the orders not ready
\* enters handle_exception exactly when now > last_amend_time + 5; otherwise
\* it calls nothing and changes nothing but update_orders, which run had
\* cleared; in neither case does it submit a batch, at once or later.
C19_StalenessEscalation ==
    /\ \A orders_manager \in LedgerStates :
           (/\ self.active /\ ~self.reconnecting
            /\ self.tob # NoTob /\ self.update_orders /\ WarmedUp
            /\ ~Ready(orders_manager))
           => LET c == RunTo(orders_manager)
              IN  /\ ~Called(c, "amend_active_orders")
                  /\ IF now > self.last_amend_time + MAX_NUMBER_OF_ATTEMPTS_SECS
                     THEN Depth(c.stk) = 1 /\ InStaleEscalation(c.stk)
                     ELSE /\ c.calls = <<>> /\ c.stk = <<>> /\ ~c.raised
                          /\ c.self = [self EXCEPT !.update_orders = FALSE]
    /\ \A t \in Tasks, ok \in BOOLEAN :
           InStaleEscalation(stack[t]) =>
               LET c == CompleteTo(t, ok)
               IN  ~Called(c, "amend_active_orders")

\* A tick has escalated a batch left unconfirmed for more than 5 seconds and
\* its recovery is under way.
C19_StaleBatchEscalated ==
    \E t \in Tasks :
        /\ InStaleEscalation(stack[t])
        /\ self.reconnecting
        /\ self.last_amend_time = Oldest

\* C20: with stop_strategy_on_error set, active becomes false only in the
\* step in which the cancel made by stop_strategy returns, and a coroutine
\* inside the recovery controller that steps into or in the stopped state
\* ends there: it leaves no cancel and no reconnect outstanding.
C20_StoppedIsTerminal ==
    [][cfg.stop_strategy_on_error =>
          /\ (self.active /\ ~self'.active) =>
                 \E t \in Tasks :
                     InStopCancel(stack[t]) /\ Complete(t, TRUE)
          /\ \A t \in Tasks :
                 (/\ ~self'.active
                  /\ Depth(stack[t]) > 0
                  /\ stack'[t] # stack[t])
                 => stack'[t] = <<>>]_vars
====
